---- MODULE Spec2Model ----
(***************************************************************************)
(* Model of the domain status checker: DomainChecker.fetch_domains with    *)
(* its outage bookkeeping, filter_domains, the probe check_domain_status   *)
(* and the polling cycle DomainChecker.check_domains_job (initial pass,    *)
(* retry pass, staleness cleanup, notification) of src/domain_checker.py;  *)
(* the handlers of TelegramBot and send_notification_to_admins of          *)
(* src/bot.py.                                                             *)
(*                                                                         *)
(* check_domains_job is a coroutine: the code between two awaits runs      *)
(* atomically on the event loop, so the stop signal changes only while the *)
(* job is suspended (pc in AwaitPoints).                                   *)
(***************************************************************************)
EXTENDS Integers, Sequences, FiniteSets, TLC

\* ------------------------------------------------------------------ bounds
Domains == {"a.com", "b.com"}
\* values of config.max_failures that are examined
MaxFailuresValues == 1..3
\* longest list the domains API returns
MaxLen == 2
\* number of calls of check_domains_job
MaxCycles == 2
\* number of direct calls of fetch_domains (SpecFetch)
MaxFetches == 3

\* ------------------------------------------------------- program constants
\* 900 seconds = 15 minutes (_handle_api_failure)
Cooldown == 900
\* config.check_cycle, the period of the job
CheckCycle == 600
\* last_api_failure = None; Python's `not x` is true of None and of 0 alike
NoneTime == 0

VARIABLES
    max_failures,             \* config.max_failures
    failure_counts,           \* dict domain -> int, a function on its keys
    unreachable_domains,      \* set of domains
    stop_event,               \* asyncio.Event: is_set()
    api_failure_notified,     \* bool
    last_api_failure,         \* NoneTime or the time of the last notified failure
    now,                      \* time.time()
    ignored_domains,          \* TelegramBot.ignored_domains
    pc,                       \* where check_domains_job is suspended
    domains_to_check,         \* local: filtered list of this cycle
    initial_results,          \* local: result of gather, "pending" while a probe runs
    newly_unreachable,        \* local list
    newly_reachable,          \* local list
    failed_domains_for_retry, \* local dict, in insertion order: <<[domain, count]>>
    retry_items,              \* list(failed_domains_for_retry.items()) at line 264
    retry_idx,                \* position of the for loop in retry_items
    log_lines,                \* lines appended to the audit log since the cycle began
    notifier_calls,           \* calls of the notifier since the cycle began
    cycle,                    \* number of calls of check_domains_job so far
    last_end,                 \* how the last call ended
    fetched,                  \* list returned by fetch_domains in this cycle
    fc_at_start,              \* failure_counts when the cycle began
    ur_at_start,              \* unreachable_domains when the cycle began
    retry_probes,             \* retry probes of this cycle: <<[domain, ok]>>
    announced,                \* domains of unreachable_domains that a notifier call
                              \* of their entry cycle listed as newly unreachable
    fetch_log,                \* SpecFetch: one record per call of fetch_domains
    stop_at,                  \* the cycle and the await point at which stop was set
    ignored_at_filter,        \* the ignore set that this cycle's filter_domains read
    admin_chat_ids,           \* TelegramBot.admin_chat_ids
    user_states,              \* TelegramBot.user_states: dict chat_id -> state
    bot_data,                 \* application.bot_data['admin_chat_ids'] (persisted)
    send_pc,                  \* where send_notification_to_admins is suspended
    send_size,                \* size of admin_chat_ids when its iterator was made
    send_visited,             \* chats the for loop has been through
    send_failed,              \* chats whose send_message raised
    send_targets,             \* admin_chat_ids when the call began
    send_outcome,             \* "none", "returned" or "raised"
    probe_pc,                 \* where check_domain_status is suspended
    probe_idx,                \* position in the URL list of the running loop
    probe_log,                \* requests issued by the call: <<[url, answer]>>
    probe_result,             \* "none", "up", "down" or "raised"
    probe_streak,             \* per domain: how many of its latest probes failed
                              \* in a row (counted up to max_failures)
    sleeps,                   \* retry_interval sleeps of this cycle that ran out
    config_file,              \* legacy Checker: the file CONFIG_FILE names
    ERROR_STS,                \* legacy Checker: self.ERROR_STS
    config,                   \* legacy Checker: self.config
    legacy_domains,           \* legacy Checker: self.domains (<<>>: False)
    last_load                 \* how the latest call of load_config found the file

botVars == << admin_chat_ids, user_states, bot_data >>
sendVars == << send_pc, send_size, send_visited, send_failed, send_targets,
               send_outcome >>
probeVars == << probe_pc, probe_idx, probe_log, probe_result >>
sideVars == << botVars, sendVars, probeVars >>
historyVars == << probe_streak, sleeps >>
legacyVars == << config_file, ERROR_STS, config, legacy_domains, last_load >>

vars == << max_failures, failure_counts, unreachable_domains, stop_event,
           api_failure_notified, last_api_failure, now, ignored_domains, pc,
           domains_to_check, initial_results, newly_unreachable, newly_reachable,
           failed_domains_for_retry, retry_items, retry_idx, log_lines,
           notifier_calls, cycle, last_end, fetched, fc_at_start, ur_at_start,
           retry_probes, announced, fetch_log, stop_at, ignored_at_filter,
           sideVars, historyVars, legacyVars >>

outageVars == << api_failure_notified, last_api_failure >>
trackerVars == << failure_counts, unreachable_domains, announced >>
localVars == << domains_to_check, initial_results, newly_unreachable,
                newly_reachable, failed_domains_for_retry, retry_items, retry_idx >>

\* ----------------------------------------------------------------- helpers
Range(s) == {s[i] : i \in 1..Len(s)}

Count(s, x) == Cardinality({i \in 1..Len(s) : s[i] = x})

\* all lists of domains of length <= n (duplicates included)
ListsUpTo(n) == UNION {[1..k -> Domains] : k \in 0..n}

\* dict.get(k, default)
DictGet(f, k, default) == IF k \in DOMAIN f THEN f[k] ELSE default

\* dict[k] = v
DictSet(f, k, v) == [x \in DOMAIN f \cup {k} |-> IF x = k THEN v ELSE f[x]]

\* del dict[k]
DictDel(f, k) == [x \in DOMAIN f \ {k} |-> f[x]]

\* failed_domains_for_retry[d] = c : a new key goes last, an old one keeps its place
RetryDictSet(r, d, c) ==
    IF \E i \in 1..Len(r) : r[i].domain = d
    THEN [i \in 1..Len(r) |->
            IF r[i].domain = d THEN [domain |-> d, count |-> c] ELSE r[i]]
    ELSE Append(r, [domain |-> d, count |-> c])

\* del failed_domains_for_retry[d]
RetryDictDel(r, d) == SelectSeq(r, LAMBDA e : e.domain # d)

\* --------------------------------------------------------- fetch_domains
FetchOutcomes == {"ok", "neterr", "status", "badjson", "badshape"}
OutageKinds == {"api_error", "unexpected", "warning"}

FetchResult(ret, raised, notified, last, calls) ==
    [ret |-> ret, raised |-> raised, notified |-> notified, last |-> last,
     calls |-> calls]

\* the two except branches (lines 62-69 and 70-76): notify unless already
\* notified; a notifier that raises here raises out of fetch_domains
ExceptBranch(kind, notified, last, calls, raises) ==
    IF ~notified
    THEN IF (Len(calls) + 1) \in raises
         THEN FetchResult(<<>>, TRUE, notified, last,
                          Append(calls, [kind |-> kind, raised |-> TRUE]))
         ELSE FetchResult(<<>>, FALSE, TRUE, last,
                          Append(calls, [kind |-> kind, raised |-> FALSE]))
    ELSE FetchResult(<<>>, FALSE, notified, last, calls)

\* the condition of _handle_api_failure (lines 83-85)
ShouldWarn(notified, last, t) ==
    \/ last = NoneTime
    \/ ~notified
    \/ t - last > Cooldown

\* _handle_api_failure, called inside the try block of fetch_domains: an
\* exception of its notifier call lands in `except Exception`
HandleApiFailure(notified, last, t, calls, raises) ==
    IF ShouldWarn(notified, last, t)
    THEN IF (Len(calls) + 1) \in raises
         THEN ExceptBranch("unexpected", notified, last,
                           Append(calls, [kind |-> "warning", raised |-> TRUE]),
                           raises)
         ELSE FetchResult(<<>>, FALSE, TRUE, t,
                          Append(calls, [kind |-> "warning", raised |-> FALSE]))
    ELSE FetchResult(<<>>, FALSE, notified, last, calls)

\* lines 55-60: the shape check, after the recovery step
ShapeCheck(outcome, body, notified, last, t, calls, raises) ==
    IF outcome = "ok"
    THEN FetchResult(body, FALSE, notified, last, calls)
    ELSE HandleApiFailure(notified, last, t, calls, raises)

\* fetch_domains.  outcome: what the HTTP request gave; body: the list of a
\* well-formed answer; t: time.time(); raises: the notifier calls (numbered
\* in call order) that raise.
FetchDomains(outcome, body, notified, last, t, raises) ==
    IF outcome = "neterr"
    THEN ExceptBranch("api_error", notified, last, <<>>, raises)
    ELSE IF outcome \in {"status", "badjson"}
    THEN ExceptBranch("unexpected", notified, last, <<>>, raises)
    ELSE IF notified
    THEN IF 1 \in raises
         THEN ExceptBranch("unexpected", notified, last,
                           <<[kind |-> "recovery", raised |-> TRUE]>>, raises)
         ELSE ShapeCheck(outcome, body, FALSE, NoneTime, t,
                         <<[kind |-> "recovery", raised |-> FALSE]>>, raises)
    ELSE ShapeCheck(outcome, body, notified, last, t, <<>>, raises)

\* a variant of FilterDomains that returns the kept domains last to first
FilterDomainsReversed(domains, ignored_set) ==
    LET kept == SelectSeq(domains, LAMBDA d : d \notin ignored_set)
    IN  [i \in 1..Len(kept) |-> kept[Len(kept) + 1 - i]]

\* a variant of FilterDomains that keeps the ignored domains
FilterDomainsKeepsAll(domains, ignored_set) == domains

\* filter_domains
FilterDomains(domains, ignored_set) ==
    SelectSeq(domains, LAMBDA d : d \notin ignored_set)

\* ------------------------------------------------------ tracker transitions
\* The state the synchronous part of check_domains_job works on.
Tracker(fc, ur, nu, nr, retry, log, ann) ==
    [fc |-> fc, ur |-> ur, nu |-> nu, nr |-> nr, retry |-> retry, log |-> log,
     ann |-> ann]

\* _log_reachable / _log_unreachable: one line appended unless the write fails
LogLine(log, kind, d, io_ok) ==
    IF io_ok THEN Append(log, [kind |-> kind, domain |-> d]) ELSE log

\* lines 247-251 and 291-294: a domain of unreachable_domains answered
MarkReachable(t, d, io_ok) ==
    IF d \in t.ur
    THEN [t EXCEPT !.ur = @ \ {d},
                   !.nr = Append(@, d),
                   !.log = LogLine(@, "REACHABLE", d, io_ok),
                   !.ann = @ \ {d}]
    ELSE t

\* a variant of InitialSuccess that forgets `del self.failure_counts[domain]`
InitialSuccessKeepsCount(t, d, io_ok) == MarkReachable(t, d, io_ok)

\* a variant of InitialSuccess that clears the count of a domain but leaves
\* the domain in unreachable_domains
InitialSuccessKeepsUnreachable(t, d, io_ok) == [t EXCEPT !.fc = DictDel(@, d)]

\* lines 246-253: initial pass, status_ok
InitialSuccess(t, d, io_ok) ==
    LET t1 == MarkReachable(t, d, io_ok)
    IN  [t1 EXCEPT !.fc = DictDel(@, d)]

\* lines 254-258: initial pass, not status_ok
InitialFailure(t, d, mf) ==
    LET c == DictGet(t.fc, d, 0) + 1
    IN  [t EXCEPT !.fc = DictSet(@, d, c),
                  !.retry = IF c < mf THEN RetryDictSet(@, d, c) ELSE @]

\* a variant of InitialResult that takes the exception object for a truthy
\* status
InitialResultExceptionIsUp(t, d, r, mf, io_ok) ==
    IF r \in {"up", "exc"}
    THEN InitialSuccess(t, d, io_ok)
    ELSE InitialFailure(t, d, mf)

\* lines 240-258: one (domain, result) pair of the zip; an exception is a failure
InitialResult(t, d, r, mf, io_ok) ==
    IF r = "up" THEN InitialSuccess(t, d, io_ok) ELSE InitialFailure(t, d, mf)

\* lines 239-258: the loop over zip(domains_to_check, initial_results)
RECURSIVE ApplyInitialResults(_, _, _, _, _, _)
ApplyInitialResults(t, ds, rs, i, mf, io_ok) ==
    IF i > Len(ds)
    THEN t
    ELSE ApplyInitialResults(InitialResult(t, ds[i], rs[i], mf, io_ok),
                             ds, rs, i + 1, mf, io_ok)

\* lines 289-299: retry, status_ok
RetrySuccess(t, d, io_ok) ==
    LET t1 == MarkReachable(t, d, io_ok)
    IN  [t1 EXCEPT !.fc = DictDel(@, d), !.retry = RetryDictDel(@, d)]

\* a variant of RetryFailure in which a failed write of the audit log ends
\* the branch before the domain is marked
RetryFailureNeedsLog(t, d, mf, io_ok) ==
    LET c == DictGet(t.fc, d, 0) + 1
        t1 == [t EXCEPT !.fc = DictSet(@, d, c)]
    IN  IF c >= mf /\ d \notin t.ur /\ io_ok
        THEN [t1 EXCEPT !.ur = @ \cup {d},
                        !.nu = Append(@, d),
                        !.log = LogLine(@, "UNREACHABLE", d, io_ok),
                        !.retry = RetryDictDel(@, d),
                        !.ann = @ \ {d}]
        ELSE t1

\* a variant of RetryFailure that gives up one failure early
RetryFailureOneEarly(t, d, mf, io_ok) ==
    LET c == DictGet(t.fc, d, 0) + 1
        t1 == [t EXCEPT !.fc = DictSet(@, d, c)]
    IN  IF c >= mf - 1 /\ d \notin t.ur
        THEN [t1 EXCEPT !.ur = @ \cup {d},
                        !.nu = Append(@, d),
                        !.log = LogLine(@, "UNREACHABLE", d, io_ok),
                        !.retry = RetryDictDel(@, d),
                        !.ann = @ \ {d}]
        ELSE t1

\* lines 300-311: retry, not status_ok
RetryFailure(t, d, mf, io_ok) ==
    LET c == DictGet(t.fc, d, 0) + 1
        t1 == [t EXCEPT !.fc = DictSet(@, d, c)]
    IN  IF c >= mf /\ d \notin t.ur
        THEN [t1 EXCEPT !.ur = @ \cup {d},
                        !.nu = Append(@, d),
                        !.log = LogLine(@, "UNREACHABLE", d, io_ok),
                        !.retry = RetryDictDel(@, d),
                        !.ann = @ \ {d}]
        ELSE t1

\* a variant of RetryCondition that ends the retries one failure early
RetryConditionOneShort(fc, d, mf, current_domains_set) ==
    DictGet(fc, d, 0) < mf - 1 /\ d \in current_domains_set

\* line 270: the condition of the while loop
RetryCondition(fc, d, mf, current_domains_set) ==
    DictGet(fc, d, 0) < mf /\ d \in current_domains_set

\* a variant of StaleDomains with the operands of the set difference swapped
StaleDomainsSwapped(fc, current_domains_set) == current_domains_set \ DOMAIN fc

\* line 313
StaleDomains(fc, current_domains_set) == DOMAIN fc \ current_domains_set

\* a variant of RemoveStale that forgets the unreachable set
RemoveStaleCountsOnly(t, current_domains_set) ==
    LET stale == StaleDomains(t.fc, current_domains_set)
    IN  [t EXCEPT !.fc = [x \in DOMAIN t.fc \ stale |-> t.fc[x]]]

\* lines 313-320: staleness cleanup
RemoveStale(t, current_domains_set) ==
    LET stale == StaleDomains(t.fc, current_domains_set)
    IN  [t EXCEPT !.fc = [x \in DOMAIN t.fc \ stale |-> t.fc[x]],
                  !.ur = @ \ stale,
                  !.ann = @ \ stale]

\* a variant of NotificationMessage that drops the newly-unreachable part
NotificationMessageReachableOnly(nu, nr) ==
    [unreachable |-> <<>>, reachable |-> nr]

\* lines 322-329: the message, its newly-unreachable part first
NotificationMessage(nu, nr) == [unreachable |-> nu, reachable |-> nr]

\* the two headers of the message text
UnreachableHeader == "Newly UNREACHABLE Domains:"

ReachableHeader == "Newly REACHABLE Domains:"

\* str.strip() of the text, line by line: blank lines at its end go
RECURSIVE Strip(_)
Strip(lines) ==
    IF lines # <<>> /\ lines[Len(lines)] = ""
    THEN Strip(SubSeq(lines, 1, Len(lines) - 1))
    ELSE lines

\* a variant of MessageText that puts the newly-reachable part first
MessageTextReachableFirst(nu, nr) ==
    Strip((IF nr # <<>> THEN <<ReachableHeader>> \o nr \o <<"">> ELSE <<>>)
          \o (IF nu # <<>> THEN <<UnreachableHeader>> \o nu ELSE <<>>))

\* lines 322-333: the text handed to the notifier, as its lines: header and
\* one line per domain of each non-empty list, a blank line after the first part
MessageText(nu, nr) ==
    Strip((IF nu # <<>> THEN <<UnreachableHeader>> \o nu \o <<"">> ELSE <<>>)
          \o (IF nr # <<>> THEN <<ReachableHeader>> \o nr ELSE <<>>))

\* a variant of ShouldNotify that does not look at the stop signal
ShouldNotifyIgnoresStop(msg, stop) ==
    msg.unreachable # <<>> \/ msg.reachable # <<>>

\* line 331: `if notification_message and not self.stop_event.is_set()`
ShouldNotify(msg, stop) ==
    (msg.unreachable # <<>> \/ msg.reachable # <<>>) /\ ~stop

\* a variant of NotifyEnd that lets the notifier's exception out of the job
NotifyEndPropagates(raised) == IF raised THEN "raised" ELSE "done"

\* lines 332-342: the try/except around the notifier call; the job runs to its
\* last line whether the call raised or not
NotifyEnd(raised) == "done"

\* a variant of NoDomainsToCheck that never skips the cycle
NoDomainsToCheckNever(filtered) == FALSE

\* line 221: `if not domains_to_check`
NoDomainsToCheck(filtered) == filtered = <<>>

\* ------------------------------------------------------------------- state
\* where the coroutine is suspended in an await (or not running: "idle")
AwaitPoints == {"idle", "fetch", "gather", "sleep", "probe", "notify"}

ProbeResults == {"up", "down", "exc"}

\* check_domain_status as its caller sees it: begun with the stop signal set
\* it returns False before any request (lines 115-117); otherwise the answers
\* decide ("exc": the task ended with an exception), also for a call that was
\* under way (in_flight) when the signal was set
ProbeOutcomes(stop, in_flight) ==
    IF stop /\ ~in_flight THEN {"down"} ELSE ProbeResults

\* a variant of NextAfterRetry that probes again at once after a failure
NextAfterRetryNoSleep(status_ok) ==
    IF status_ok THEN "retry_for" ELSE "probe"

\* lines 289-311: where the retry pass goes on after a retry probe: a success
\* breaks out of the while loop (line 299), a failure goes back to its head
\* (line 270), and with it to the next sleep
NextAfterRetry(status_ok) ==
    IF status_ok THEN "retry_for" ELSE "retry_while"

\* a variant of StopRequested that never sees the signal
StopRequestedNever(stop) == FALSE

\* lines 230 and 285: `if self.stop_event.is_set()` right after an await whose
\* result is about to be applied
StopRequested(stop) == stop

\* the stop signal was set while this cycle was suspended at the given await
StopWhile(point) ==
    /\ stop_event
    /\ stop_at.cycle = cycle
    /\ stop_at.pc = point

\* the notifier calls of one fetch_domains that may raise, numbered in call order
NotifierFaults == SUBSET (1..3)

CurrentDomainsSet == Range(domains_to_check)

\* legacy Checker: a config file, and a value load_config returns; state is
\* "ok" (a JSON object with the two lists), "missing", "malformed", "false"
\* (the value False) or "none" (no Checker has been constructed yet)
LegacyConfig(state, phone_numbers, unavailable_domains) ==
    [state |-> state, phone_numbers |-> phone_numbers,
     unavailable_domains |-> unavailable_domains]

NoConfig == LegacyConfig("none", <<>>, <<>>)

\* __init__ and reset_state; the ignore list is what _load_ignored_domains read
Init ==
    /\ max_failures \in MaxFailuresValues
    /\ failure_counts = <<>>
    /\ unreachable_domains = {}
    /\ stop_event = FALSE
    /\ api_failure_notified = FALSE
    /\ last_api_failure = NoneTime
    /\ now = 1000
    /\ ignored_domains \in {{}, {"b.com"}}
    /\ pc = "idle"
    /\ domains_to_check = <<>>
    /\ initial_results = <<>>
    /\ newly_unreachable = <<>>
    /\ newly_reachable = <<>>
    /\ failed_domains_for_retry = <<>>
    /\ retry_items = <<>>
    /\ retry_idx = 0
    /\ log_lines = <<>>
    /\ notifier_calls = <<>>
    /\ cycle = 0
    /\ last_end = "none"
    /\ fetched = <<>>
    /\ fc_at_start = <<>>
    /\ ur_at_start = {}
    /\ retry_probes = <<>>
    /\ announced = {}
    /\ fetch_log = <<>>
    /\ stop_at = [cycle |-> 0, pc |-> "never"]
    /\ ignored_at_filter = {}
    /\ admin_chat_ids = {}
    /\ user_states = <<>>
    /\ bot_data = {}
    /\ send_pc = "idle"
    /\ send_size = 0
    /\ send_visited = {}
    /\ send_failed = {}
    /\ send_targets = {}
    /\ send_outcome = "none"
    /\ probe_pc = "idle"
    /\ probe_idx = 0
    /\ probe_log = <<>>
    /\ probe_result = "none"
    /\ probe_streak = [d \in Domains |-> 0]
    /\ sleeps = 0
    /\ config_file = NoConfig
    /\ ERROR_STS = FALSE
    /\ config = NoConfig
    /\ legacy_domains = <<>>
    /\ last_load = "none"

\* the streak of failed probes of d after one more probe of d
StreakAfter(streak, d, ok, mf) ==
    [streak EXCEPT ![d] = IF ok THEN 0 ELSE IF @ < mf THEN @ + 1 ELSE @]

\* the streaks after the probes of the initial pass, in the order of the list
RECURSIVE StreakAfterAll(_, _, _, _, _)
StreakAfterAll(streak, ds, rs, i, mf) ==
    IF i > Len(ds)
    THEN streak
    ELSE StreakAfterAll(StreakAfter(streak, ds[i], rs[i] = "up", mf),
                        ds, rs, i + 1, mf)

\* the tracker state of the running cycle, and its write-back
CurrentTracker ==
    Tracker(failure_counts, unreachable_domains, newly_unreachable,
            newly_reachable, failed_domains_for_retry, log_lines, announced)

SetTracker(t) ==
    /\ failure_counts' = t.fc
    /\ unreachable_domains' = t.ur
    /\ newly_unreachable' = t.nu
    /\ newly_reachable' = t.nr
    /\ failed_domains_for_retry' = t.retry
    /\ log_lines' = t.log
    /\ announced' = t.ann

\* the call returns (or raises): the job is idle until its next run
EndCycle(how) ==
    /\ pc' = "idle"
    /\ last_end' = how

\* ----------------------------------------------------------------- actions
\* stop_event.set() by the shutdown path, while the job is suspended
Stop ==
    /\ pc \in AwaitPoints
    /\ ~stop_event
    /\ stop_event' = TRUE
    /\ stop_at' = [cycle |-> cycle, pc |-> pc]
    /\ UNCHANGED << sideVars, ignored_at_filter >>
    /\ UNCHANGED << max_failures, trackerVars, outageVars, now, ignored_domains,
                    pc, localVars, log_lines, notifier_calls, cycle, last_end,
                    fetched, fc_at_start, ur_at_start, retry_probes, fetch_log >>
    /\ UNCHANGED historyVars
    /\ UNCHANGED legacyVars

\* lines 211-218: the scheduler calls check_domains_job, one period later
StartCycle ==
    /\ pc = "idle"
    /\ cycle < MaxCycles
    /\ cycle' = cycle + 1
    /\ now' = now + CheckCycle
    /\ fc_at_start' = failure_counts
    /\ ur_at_start' = unreachable_domains
    /\ domains_to_check' = <<>>
    /\ initial_results' = <<>>
    /\ newly_unreachable' = <<>>
    /\ newly_reachable' = <<>>
    /\ failed_domains_for_retry' = <<>>
    /\ retry_items' = <<>>
    /\ retry_idx' = 0
    /\ log_lines' = <<>>
    /\ notifier_calls' = <<>>
    /\ fetched' = <<>>
    /\ retry_probes' = <<>>
    /\ ignored_at_filter' = {}
    /\ IF stop_event
       THEN EndCycle("stop_before")
       ELSE pc' = "fetch" /\ last_end' = "running"
    /\ UNCHANGED << sideVars, stop_at >>
    /\ UNCHANGED << max_failures, trackerVars, stop_event, outageVars,
                    ignored_domains, fetch_log >>
    /\ sleeps' = 0
    /\ UNCHANGED probe_streak
    /\ UNCHANGED legacyVars

\* lines 220-225: fetch_domains, filter_domains, the empty-list return
FetchStep ==
    /\ pc = "fetch"
    /\ \E outcome \in FetchOutcomes, body \in ListsUpTo(MaxLen),
          raises \in NotifierFaults :
        LET r == FetchDomains(outcome, body, api_failure_notified,
                              last_api_failure, now, raises)
            filtered == FilterDomains(r.ret, ignored_domains)
        IN  /\ api_failure_notified' = r.notified
            /\ last_api_failure' = r.last
            /\ notifier_calls' = notifier_calls \o r.calls
            /\ fetched' = r.ret
            /\ ignored_at_filter' = IF r.raised THEN {} ELSE ignored_domains
            /\ IF r.raised
               THEN /\ EndCycle("raised")
                    /\ UNCHANGED << domains_to_check, initial_results >>
               ELSE IF NoDomainsToCheck(filtered)
               THEN /\ EndCycle("empty")
                    /\ UNCHANGED << domains_to_check, initial_results >>
               ELSE /\ pc' = "gather"
                    /\ domains_to_check' = filtered
                    /\ initial_results' = [i \in 1..Len(filtered) |-> "pending"]
                    /\ UNCHANGED last_end
    /\ UNCHANGED << sideVars, stop_at >>
    /\ UNCHANGED << max_failures, trackerVars, stop_event, now,
                    ignored_domains,
                    newly_unreachable, newly_reachable, failed_domains_for_retry,
                    retry_items, retry_idx, log_lines, cycle, fc_at_start,
                    ur_at_start, retry_probes, fetch_log >>
    /\ UNCHANGED historyVars
    /\ UNCHANGED legacyVars

\* lines 227-228: one task of the gather finishes
InitialProbe ==
    /\ pc = "gather"
    /\ \E i \in 1..Len(initial_results),
          r \in ProbeOutcomes(stop_event, StopWhile("gather")) :
        /\ initial_results[i] = "pending"
        /\ initial_results' = [initial_results EXCEPT ![i] = r]
    /\ UNCHANGED << sideVars, stop_at, ignored_at_filter >>
    /\ UNCHANGED << max_failures, trackerVars, stop_event, outageVars, now,
                    ignored_domains, pc, domains_to_check, newly_unreachable,
                    newly_reachable, failed_domains_for_retry, retry_items,
                    retry_idx, log_lines, notifier_calls, cycle, last_end,
                    fetched, fc_at_start, ur_at_start, retry_probes, fetch_log >>
    /\ UNCHANGED historyVars
    /\ UNCHANGED legacyVars

\* lines 228-264: the gather returns; stop check; the initial results are applied
GatherDone ==
    /\ pc = "gather"
    /\ \A i \in 1..Len(initial_results) : initial_results[i] # "pending"
    /\ IF StopRequested(stop_event)
       THEN /\ EndCycle("stop_gather")
            /\ UNCHANGED << trackerVars, newly_unreachable, newly_reachable,
                            failed_domains_for_retry, retry_items, retry_idx,
                            log_lines >>
       ELSE \E io_ok \in BOOLEAN :
            LET t == ApplyInitialResults(CurrentTracker, domains_to_check,
                                         initial_results, 1, max_failures, io_ok)
            IN  /\ SetTracker(t)
                /\ retry_items' = t.retry
                /\ retry_idx' = 1
                /\ pc' = "retry_for"
                /\ UNCHANGED last_end
    /\ UNCHANGED << sideVars, stop_at, ignored_at_filter >>
    /\ UNCHANGED << max_failures, stop_event, outageVars, now, ignored_domains,
                    domains_to_check, initial_results, notifier_calls, cycle,
                    fetched, fc_at_start, ur_at_start, retry_probes, fetch_log >>
    /\ probe_streak' = StreakAfterAll(probe_streak, domains_to_check,
                                       initial_results, 1, max_failures)
    /\ UNCHANGED sleeps
    /\ UNCHANGED legacyVars

\* lines 264-268: head of the for loop over the retry snapshot
RetryFor ==
    /\ pc = "retry_for"
    /\ IF retry_idx > Len(retry_items) \/ stop_event
       THEN pc' = "cleanup"
       ELSE pc' = "retry_while"
    /\ UNCHANGED << sideVars, stop_at, ignored_at_filter >>
    /\ UNCHANGED << max_failures, trackerVars, stop_event, outageVars, now,
                    ignored_domains, localVars, log_lines, notifier_calls, cycle,
                    last_end, fetched, fc_at_start, ur_at_start, retry_probes,
                    fetch_log >>
    /\ UNCHANGED historyVars
    /\ UNCHANGED legacyVars

\* lines 270-278: head of the while loop, up to the sleep
RetryWhile ==
    /\ pc = "retry_while"
    /\ IF /\ RetryCondition(failure_counts, retry_items[retry_idx].domain,
                            max_failures, CurrentDomainsSet)
          /\ ~stop_event
       THEN pc' = "sleep" /\ UNCHANGED retry_idx
       ELSE pc' = "retry_for" /\ retry_idx' = retry_idx + 1
    /\ UNCHANGED << sideVars, stop_at, ignored_at_filter >>
    /\ UNCHANGED << max_failures, trackerVars, stop_event, outageVars, now,
                    ignored_domains, domains_to_check, initial_results,
                    newly_unreachable, newly_reachable, failed_domains_for_retry,
                    retry_items, log_lines, notifier_calls, cycle, last_end,
                    fetched, fc_at_start, ur_at_start, retry_probes, fetch_log >>
    /\ UNCHANGED historyVars
    /\ UNCHANGED legacyVars

\* line 278: the retry_interval sleep ends
RetrySleep ==
    /\ pc = "sleep"
    /\ pc' = "probe"
    /\ UNCHANGED << sideVars, stop_at, ignored_at_filter >>
    /\ UNCHANGED << max_failures, trackerVars, stop_event, outageVars, now,
                    ignored_domains, localVars, log_lines, notifier_calls, cycle,
                    last_end, fetched, fc_at_start, ur_at_start, retry_probes,
                    fetch_log >>
    /\ sleeps' = sleeps + 1
    /\ UNCHANGED probe_streak
    /\ UNCHANGED legacyVars

\* lines 279-281: the sleep is cancelled "due to stop signal": break
RetrySleepCancelled ==
    /\ pc = "sleep"
    /\ stop_event
    /\ pc' = "retry_for"
    /\ retry_idx' = retry_idx + 1
    /\ UNCHANGED << sideVars, stop_at, ignored_at_filter >>
    /\ UNCHANGED << max_failures, trackerVars, stop_event, outageVars, now,
                    ignored_domains, domains_to_check, initial_results,
                    newly_unreachable, newly_reachable, failed_domains_for_retry,
                    retry_items, log_lines, notifier_calls, cycle, last_end,
                    fetched, fc_at_start, ur_at_start, retry_probes, fetch_log >>
    /\ UNCHANGED historyVars
    /\ UNCHANGED legacyVars

\* lines 283-311: the retry probe returns; stop check; its result is applied
RetryProbe ==
    /\ pc = "probe"
    /\ \E r \in ProbeOutcomes(stop_event, StopWhile("probe")) \ {"exc"},
          io_ok \in BOOLEAN :
        LET d == retry_items[retry_idx].domain
            status_ok == r = "up"
        IN  /\ retry_probes' = Append(retry_probes,
                                      [domain |-> d, ok |-> status_ok])
            /\ probe_streak' = StreakAfter(probe_streak, d, status_ok,
                                           max_failures)
            /\ IF StopRequested(stop_event)
               THEN /\ pc' = "retry_for"
                    /\ retry_idx' = retry_idx + 1
                    /\ UNCHANGED << trackerVars, newly_unreachable,
                                    newly_reachable, failed_domains_for_retry,
                                    log_lines >>
               ELSE IF status_ok
               THEN /\ SetTracker(RetrySuccess(CurrentTracker, d, io_ok))
                    /\ pc' = NextAfterRetry(status_ok)
                    /\ retry_idx' = retry_idx + 1
               ELSE /\ SetTracker(RetryFailure(CurrentTracker, d, max_failures,
                                               io_ok))
                    /\ pc' = NextAfterRetry(status_ok)
                    /\ UNCHANGED retry_idx
    /\ UNCHANGED << sideVars, stop_at, ignored_at_filter >>
    /\ UNCHANGED << max_failures, stop_event, outageVars, now, ignored_domains,
                    domains_to_check, initial_results, retry_items,
                    notifier_calls, cycle, last_end, fetched, fc_at_start,
                    ur_at_start, fetch_log >>
    /\ UNCHANGED sleeps
    /\ UNCHANGED legacyVars

\* lines 313-331: staleness cleanup, the message and the guard of the notifier call
Cleanup ==
    /\ pc = "cleanup"
    /\ SetTracker(RemoveStale(CurrentTracker, CurrentDomainsSet))
    /\ IF ShouldNotify(NotificationMessage(newly_unreachable, newly_reachable),
                       stop_event)
       THEN pc' = "notify" /\ UNCHANGED last_end
       ELSE EndCycle("done")
    /\ UNCHANGED << sideVars, stop_at, ignored_at_filter >>
    /\ UNCHANGED << max_failures, stop_event, outageVars, now, ignored_domains,
                    domains_to_check, initial_results, retry_items, retry_idx,
                    notifier_calls, cycle, fetched, fc_at_start, ur_at_start,
                    retry_probes, fetch_log >>
    /\ UNCHANGED historyVars
    /\ UNCHANGED legacyVars

\* lines 332-342: the notifier call returns or raises (caught); the job returns
NotifyReturn ==
    /\ pc = "notify"
    /\ \E raised \in BOOLEAN :
        LET msg == NotificationMessage(newly_unreachable, newly_reachable)
        IN  /\ notifier_calls' = Append(notifier_calls,
                                        [kind |-> "transition", raised |-> raised,
                                         unreachable |-> msg.unreachable,
                                         reachable |-> msg.reachable,
                                         text |-> MessageText(msg.unreachable,
                                                              msg.reachable)])
            /\ announced' = announced \cup Range(msg.unreachable)
            /\ EndCycle(NotifyEnd(raised))
    /\ UNCHANGED << sideVars, stop_at, ignored_at_filter >>
    /\ UNCHANGED << max_failures, failure_counts, unreachable_domains, stop_event,
                    outageVars, now, ignored_domains, localVars, log_lines, cycle,
                    fetched, fc_at_start, ur_at_start, retry_probes, fetch_log >>
    /\ UNCHANGED historyVars
    /\ UNCHANGED legacyVars

Next ==
    \/ Stop
    \/ StartCycle
    \/ FetchStep
    \/ InitialProbe
    \/ GatherDone
    \/ RetryFor
    \/ RetryWhile
    \/ RetrySleep
    \/ RetrySleepCancelled
    \/ RetryProbe
    \/ Cleanup
    \/ NotifyReturn

Spec == Init /\ [][Next]_vars

\* ------------------------------------------------- fetch_domains on its own
\* times between two calls of fetch_domains: 1 minute, 15 minutes
TickSteps == {60, 900}

\* the lists a well-formed answer holds in SpecFetch
FetchBodies == {<<>>, <<"a.com">>}

\* one call of fetch_domains, dt seconds after the previous one
FetchCall ==
    /\ Len(fetch_log) < MaxFetches
    /\ \E dt \in TickSteps, outcome \in FetchOutcomes, body \in FetchBodies,
          raises \in NotifierFaults :
        LET r == FetchDomains(outcome, body, api_failure_notified,
                              last_api_failure, now + dt, raises)
        IN  /\ now' = now + dt
            /\ api_failure_notified' = r.notified
            /\ last_api_failure' = r.last
            /\ fetch_log' = Append(fetch_log,
                                   [time |-> now + dt, outcome |-> outcome,
                                    body |-> IF outcome = "ok" THEN body ELSE <<>>,
                                    active |-> api_failure_notified,
                                    ret |-> r.ret, raised |-> r.raised,
                                    calls |-> r.calls, notified |-> r.notified,
                                    last |-> r.last])
    /\ UNCHANGED << sideVars, stop_at, ignored_at_filter >>
    /\ UNCHANGED << max_failures, trackerVars, stop_event, ignored_domains, pc,
                    localVars, log_lines, notifier_calls, cycle, last_end,
                    fetched, fc_at_start, ur_at_start, retry_probes >>
    /\ UNCHANGED historyVars
    /\ UNCHANGED legacyVars

NextFetch == FetchCall

SpecFetch == Init /\ [][NextFetch]_vars

\* ------------------------------------------- check_domain_status on its own
\* line 111 and lines 145-146: the URL lists of the two loops
UrlsToTryRoot == << "https://d", "http://d" >>

UrlsToTryHealth == << "https://d/status", "http://d/status" >>

\* status codes a server answers with
RootStatuses == {200, 301, 404, 500}

HealthStatuses == {200, 204, 401, 404, 500}

\* bodies of a 200 answer of the health endpoint: {"status": "ok"}, {"status":
\* "error"}, an object without status, text that is not JSON, a JSON list
HealthBodies == {"ok", "error", "nostatus", "malformed", "list"}

\* httpx.TimeoutException, httpx.RequestError (connection and TLS errors), any
\* other exception of the client
TransportErrors == {"TimeoutException", "RequestError", "Exception"}

Answer(kind, status, body) == [kind |-> kind, status |-> status, body |-> body]

\* what `await self._client.get(url)` can end with
RootAnswers ==
    {Answer("response", st, "none") : st \in RootStatuses}
        \cup {Answer(e, 0, "none") : e \in TransportErrors}

HealthAnswers ==
    {Answer("response", 200, b) : b \in HealthBodies}
        \cup {Answer("response", st, "none") : st \in HealthStatuses \ {200}}
        \cup {Answer(e, 0, "none") : e \in TransportErrors}

\* lines 120-127: the try block of the root loop; an exception of the client
\* leaves it under its own name
RootTry(a) ==
    IF a.kind # "response" THEN a.kind
    ELSE IF a.status < 400 THEN "break"
    ELSE "down"

\* lines 119-137: one iteration of the root loop; each except clause returns False
RootStep(a) ==
    LET r == RootTry(a)
    IN  IF r \in TransportErrors THEN "down" ELSE r

\* lines 153-175: the try block of the health loop; response.json() raises
\* JSONDecodeError on text that is not JSON, and .get on a list raises
\* AttributeError; a status that no branch names falls out of the block
HealthTry(a) ==
    IF a.kind # "response" THEN a.kind
    ELSE IF a.status = 200
         THEN CASE a.body = "malformed" -> "JSONDecodeError"
                [] a.body = "list" -> "AttributeError"
                [] a.body = "ok" -> "up"
                [] OTHER -> "down"
    ELSE IF a.status = 401 THEN "down"
    ELSE IF a.status >= 400 THEN "down"
    ELSE "next"

\* a variant of HealthStep whose last except clause is missing
HealthStepNarrowExcept(a) ==
    LET r == HealthTry(a)
    IN  IF r \in {"JSONDecodeError", "TimeoutException", "RequestError"}
        THEN "down"
        ELSE IF r \in {"AttributeError", "Exception"} THEN "raised" ELSE r

\* lines 152-184: one iteration of the health loop; JSONDecodeError is caught at
\* lines 165-167, everything else by the except clauses at lines 176-184
HealthStep(a) ==
    LET r == HealthTry(a)
    IN  IF r \in {"JSONDecodeError", "AttributeError"} \cup TransportErrors
        THEN "down"
        ELSE r

\* the call returns (or raises)
ProbeEnd(result) ==
    /\ probe_pc' = "done"
    /\ probe_result' = result

\* lines 103-112: check_domain_status is called
ProbeStart ==
    /\ probe_pc \in {"idle", "done"}
    /\ probe_pc' = "root"
    /\ probe_idx' = 1
    /\ probe_log' = <<>>
    /\ probe_result' = "none"
    /\ UNCHANGED << botVars, sendVars, stop_at, ignored_at_filter >>
    /\ UNCHANGED << max_failures, trackerVars, stop_event, outageVars, now,
                    ignored_domains, pc, localVars, log_lines, notifier_calls,
                    cycle, last_end, fetched, fc_at_start, ur_at_start,
                    retry_probes, fetch_log >>
    /\ UNCHANGED historyVars
    /\ UNCHANGED legacyVars

\* a request that has been issued and not answered yet
Pending == Answer("pending", 0, "none")

\* `await self._client.get(url)` begins: the request is on its way
IssueRequest(url) ==
    probe_log' = Append(probe_log, [url |-> url, answer |-> Pending])

\* `await self._client.get(url)` ends with answer a
ReceiveAnswer(a) ==
    probe_log' = [probe_log EXCEPT ![Len(probe_log)].answer = a]

\* lines 114-121: the head of the root loop: the stop check, then the request
\* is issued; line 139 when the list is exhausted
ProbeRoot ==
    /\ probe_pc = "root"
    /\ IF probe_idx > Len(UrlsToTryRoot) \/ stop_event
       THEN ProbeEnd("down") /\ UNCHANGED << probe_idx, probe_log >>
       ELSE /\ IssueRequest(UrlsToTryRoot[probe_idx])
            /\ probe_pc' = "root_wait"
            /\ UNCHANGED << probe_idx, probe_result >>
    /\ UNCHANGED << botVars, sendVars, stop_at, ignored_at_filter >>
    /\ UNCHANGED << max_failures, trackerVars, stop_event, outageVars, now,
                    ignored_domains, pc, localVars, log_lines, notifier_calls,
                    cycle, last_end, fetched, fc_at_start, ur_at_start,
                    retry_probes, fetch_log >>
    /\ UNCHANGED historyVars
    /\ UNCHANGED legacyVars

\* lines 121-137: the root request is answered (every answer leaves the loop:
\* break or return); no stop check stands between the answer and its use
ProbeRootAnswer ==
    /\ probe_pc = "root_wait"
    /\ \E a \in RootAnswers :
        LET r == RootStep(a)
        IN  /\ ReceiveAnswer(a)
            /\ IF r = "break"
               THEN /\ probe_pc' = "health"
                    /\ probe_idx' = 1
                    /\ UNCHANGED probe_result
               ELSE ProbeEnd(r) /\ UNCHANGED probe_idx
    /\ UNCHANGED << botVars, sendVars, stop_at, ignored_at_filter >>
    /\ UNCHANGED << max_failures, trackerVars, stop_event, outageVars, now,
                    ignored_domains, pc, localVars, log_lines, notifier_calls,
                    cycle, last_end, fetched, fc_at_start, ur_at_start,
                    retry_probes, fetch_log >>
    /\ UNCHANGED historyVars
    /\ UNCHANGED legacyVars

\* lines 148-153: the head of the health loop: the stop check, then the
\* request is issued; line 188 when the list is exhausted
ProbeHealth ==
    /\ probe_pc = "health"
    /\ IF probe_idx > Len(UrlsToTryHealth) \/ stop_event
       THEN ProbeEnd("down") /\ UNCHANGED << probe_idx, probe_log >>
       ELSE /\ IssueRequest(UrlsToTryHealth[probe_idx])
            /\ probe_pc' = "health_wait"
            /\ UNCHANGED << probe_idx, probe_result >>
    /\ UNCHANGED << botVars, sendVars, stop_at, ignored_at_filter >>
    /\ UNCHANGED << max_failures, trackerVars, stop_event, outageVars, now,
                    ignored_domains, pc, localVars, log_lines, notifier_calls,
                    cycle, last_end, fetched, fc_at_start, ur_at_start,
                    retry_probes, fetch_log >>
    /\ UNCHANGED historyVars
    /\ UNCHANGED legacyVars

\* lines 153-184: the health request is answered; its result is returned, or
\* the loop goes on, without a look at the stop signal
ProbeHealthAnswer ==
    /\ probe_pc = "health_wait"
    /\ \E a \in HealthAnswers :
        LET r == HealthStep(a)
        IN  /\ ReceiveAnswer(a)
            /\ IF r = "next"
               THEN /\ probe_pc' = "health"
                    /\ probe_idx' = probe_idx + 1
                    /\ UNCHANGED probe_result
               ELSE ProbeEnd(r) /\ UNCHANGED probe_idx
    /\ UNCHANGED << botVars, sendVars, stop_at, ignored_at_filter >>
    /\ UNCHANGED << max_failures, trackerVars, stop_event, outageVars, now,
                    ignored_domains, pc, localVars, log_lines, notifier_calls,
                    cycle, last_end, fetched, fc_at_start, ur_at_start,
                    retry_probes, fetch_log >>
    /\ UNCHANGED historyVars
    /\ UNCHANGED legacyVars

NextProbe ==
    \/ Stop
    \/ ProbeStart
    \/ ProbeRoot
    \/ ProbeRootAnswer
    \/ ProbeHealth
    \/ ProbeHealthAnswer

SpecProbe == Init /\ [][NextProbe]_vars

\* ------------------------------------------------------------ the Telegram bot
\* chat ids that write to the bot
Chats == {1, 2}

\* bot.py lines 24-25
ADD_DOMAIN_STATE == 1

REMOVE_DOMAIN_STATE == 2

\* contact.phone_number as Telegram hands it over
RawPhones == {"+1", "1", "2", "(3)"}

\* config.admin_phone_numbers
AdminPhoneNumbers == {"+1", "+2"}

\* _normalize_phone: digits only are returned as they are, anything else
\* gets a leading "+" unless it has one
NormalizePhone(number) ==
    CASE number = "+1" -> "+1"
      [] number = "1" -> "1"
      [] number = "2" -> "2"
      [] number = "(3)" -> "+(3)"

\* texts a chat sends: a domain, a domain in capitals with blanks around it,
\* a text that is no domain
Texts == {"a.com", " B.COM ", "hello"}

\* update.message.text.strip().lower()
StripLower(text) ==
    CASE text = "a.com" -> "a.com"
      [] text = " B.COM " -> "b.com"
      [] text = "hello" -> "hello"

\* re.match(r"^[a-z0-9-]+\.[a-z0-9-.]+$", domain_input)
LooksLikeDomain(domain_input) == domain_input \in {"a.com", "b.com"}

\* a variant of CheckAdminPermission that lets every chat through
CheckAdminPermissionOpen(chat_id, admins) == TRUE

\* _check_admin_permission
CheckAdminPermission(chat_id, admins) == chat_id \in admins

\* handle_domain_input past its state check: the new ignore set, and whether
\* the chat's state is cleared (an invalid text keeps it)
DomainInput(user_state, text, ignored) ==
    LET domain_input == StripLower(text)
    IN  IF ~LooksLikeDomain(domain_input)
        THEN [ignored |-> ignored, cleared |-> FALSE]
        ELSE IF user_state = ADD_DOMAIN_STATE
        THEN [ignored |-> ignored \cup {domain_input}, cleared |-> TRUE]
        ELSE IF user_state = REMOVE_DOMAIN_STATE
        THEN [ignored |-> ignored \ {domain_input}, cleared |-> TRUE]
        ELSE [ignored |-> ignored, cleared |-> TRUE]

\* everything the bot's handlers leave alone
checkerVars == << max_failures, trackerVars, stop_event, outageVars, now, pc,
                 localVars, log_lines, notifier_calls, cycle, last_end, fetched,
                 fc_at_start, ur_at_start, retry_probes, fetch_log, stop_at,
                 ignored_at_filter, probeVars, historyVars, legacyVars >>

\* load_admin_ids: bot_data.setdefault('admin_chat_ids', set()); until the
\* program has stored a set itself, the value is what the persistence file holds
LoadAdminIds ==
    /\ \E stored \in SUBSET Chats :
        LET loaded == IF bot_data = {} THEN stored ELSE bot_data
        IN  /\ admin_chat_ids' = loaded
            /\ bot_data' = loaded
    /\ UNCHANGED << user_states, ignored_domains, sendVars, checkerVars >>

\* start_command: clears the chat's pending state
StartCommand ==
    /\ \E chat_id \in Chats :
        user_states' = DictDel(user_states, chat_id)
    /\ UNCHANGED << admin_chat_ids, bot_data, ignored_domains, sendVars,
                    checkerVars >>

\* contact_handler: a contact that is the sender's own and whose number is an
\* admin number registers the chat
ContactHandler ==
    /\ \E chat_id \in Chats, own \in BOOLEAN, number \in RawPhones :
        IF own /\ NormalizePhone(number) \in AdminPhoneNumbers
        THEN /\ admin_chat_ids' = admin_chat_ids \cup {chat_id}
             /\ bot_data' = admin_chat_ids \cup {chat_id}
        ELSE UNCHANGED << admin_chat_ids, bot_data >>
    /\ UNCHANGED << user_states, ignored_domains, sendVars, checkerVars >>

\* ignore_list_command: an admin's pending state is cleared
IgnoreListCommand ==
    /\ \E chat_id \in Chats :
        IF CheckAdminPermission(chat_id, admin_chat_ids)
        THEN user_states' = DictDel(user_states, chat_id)
        ELSE UNCHANGED user_states
    /\ UNCHANGED << admin_chat_ids, bot_data, ignored_domains, sendVars,
                    checkerVars >>

\* ignore_add_command_start
IgnoreAddCommandStart ==
    /\ \E chat_id \in Chats :
        IF CheckAdminPermission(chat_id, admin_chat_ids)
        THEN user_states' = DictSet(user_states, chat_id, ADD_DOMAIN_STATE)
        ELSE UNCHANGED user_states
    /\ UNCHANGED << admin_chat_ids, bot_data, ignored_domains, sendVars,
                    checkerVars >>

\* ignore_remove_command_start
IgnoreRemoveCommandStart ==
    /\ \E chat_id \in Chats :
        IF CheckAdminPermission(chat_id, admin_chat_ids)
        THEN user_states' = DictSet(user_states, chat_id, REMOVE_DOMAIN_STATE)
        ELSE UNCHANGED user_states
    /\ UNCHANGED << admin_chat_ids, bot_data, ignored_domains, sendVars,
                    checkerVars >>

\* handle_domain_input: a text that is not a command; the write of the ignore
\* file (_save_ignored_domains) does not touch the set in memory
HandleDomainInput ==
    /\ \E chat_id \in Chats, text \in Texts :
        IF chat_id \notin DOMAIN user_states
        THEN UNCHANGED << ignored_domains, user_states >>
        ELSE LET r == DomainInput(user_states[chat_id], text, ignored_domains)
             IN  /\ ignored_domains' = r.ignored
                 /\ user_states' = IF r.cleared
                                   THEN DictDel(user_states, chat_id)
                                   ELSE user_states
    /\ UNCHANGED << admin_chat_ids, bot_data, sendVars, checkerVars >>

\* cancel_command
CancelCommand ==
    /\ \E chat_id \in Chats :
        user_states' = DictDel(user_states, chat_id)
    /\ UNCHANGED << admin_chat_ids, bot_data, ignored_domains, sendVars,
                    checkerVars >>

\* send_notification_to_admins, lines 153-162: nothing to do without admins;
\* otherwise the for statement makes an iterator over admin_chat_ids, takes
\* its first chat and awaits send_message (ok: whether that call will succeed)
SendStart ==
    /\ send_pc \in {"idle", "done"}
    /\ send_targets' = admin_chat_ids
    /\ send_size' = Cardinality(admin_chat_ids)
    /\ IF admin_chat_ids = {}
       THEN /\ send_pc' = "done"
            /\ send_outcome' = "returned"
            /\ send_visited' = {}
            /\ send_failed' = {}
       ELSE \E chat_id \in admin_chat_ids, ok \in BOOLEAN :
            /\ send_pc' = "iter"
            /\ send_outcome' = "none"
            /\ send_visited' = {chat_id}
            /\ send_failed' = IF ok THEN {} ELSE {chat_id}
    /\ UNCHANGED << botVars, ignored_domains, checkerVars >>

\* lines 160-172: send_message has returned or raised (caught); the for
\* statement asks the set iterator for the next chat; the iterator raises
\* RuntimeError when the set's size is no longer the one it started with (the
\* for statement is outside the try); otherwise send_message is awaited again
SendNext ==
    /\ send_pc = "iter"
    /\ IF Cardinality(admin_chat_ids) # send_size
       THEN /\ send_pc' = "done"
            /\ send_outcome' = "raised"
            /\ UNCHANGED << send_visited, send_failed >>
       ELSE IF admin_chat_ids \subseteq send_visited
       THEN /\ send_pc' = "done"
            /\ send_outcome' = "returned"
            /\ UNCHANGED << send_visited, send_failed >>
       ELSE \E chat_id \in admin_chat_ids \ send_visited, ok \in BOOLEAN :
            /\ send_visited' = send_visited \cup {chat_id}
            /\ send_failed' = IF ok THEN send_failed
                              ELSE send_failed \cup {chat_id}
            /\ UNCHANGED << send_pc, send_outcome >>
    /\ UNCHANGED << send_size, send_targets, botVars, ignored_domains,
                    checkerVars >>

\* DomainChecker.filter_domains called with a list: its one access to the
\* ignore set
FilterCall ==
    /\ \E domains \in ListsUpTo(MaxLen) :
        /\ fetched' = domains
        /\ domains_to_check' = FilterDomains(domains, ignored_domains)
        /\ ignored_at_filter' = ignored_domains
    /\ UNCHANGED << botVars, sendVars, probeVars, stop_at, historyVars >>
    /\ UNCHANGED << max_failures, trackerVars, stop_event, outageVars, now,
                    ignored_domains, pc, initial_results, newly_unreachable,
                    newly_reachable, failed_domains_for_retry, retry_items,
                    retry_idx, log_lines, notifier_calls, cycle, last_end,
                    fc_at_start, ur_at_start, retry_probes, fetch_log >>
    /\ UNCHANGED legacyVars

NextBot ==
    \/ LoadAdminIds
    \/ StartCommand
    \/ ContactHandler
    \/ IgnoreListCommand
    \/ IgnoreAddCommandStart
    \/ IgnoreRemoveCommandStart
    \/ HandleDomainInput
    \/ CancelCommand
    \/ SendStart
    \/ SendNext
    \/ FilterCall

SpecBot == Init /\ [][NextBot]_vars

\* ------------------------------------- the polling cycle with ignore-list edits
\* the domain texts the admin sends while the job runs
EditedTexts == {"a.com"}

\* a registered admin chat goes through /ignore_add or /ignore_remove and
\* sends a domain (ignore_add_command_start or ignore_remove_command_start,
\* then handle_domain_input, which clears the chat's state again) while the
\* job is suspended
AdminEdit ==
    /\ pc \in AwaitPoints
    /\ \E user_state \in {ADD_DOMAIN_STATE, REMOVE_DOMAIN_STATE},
          text \in EditedTexts :
        ignored_domains' = DomainInput(user_state, text, ignored_domains).ignored
    /\ UNCHANGED << botVars, sendVars, checkerVars >>

NextIgnore ==
    \/ Next
    \/ AdminEdit

SpecIgnore == Init /\ [][NextIgnore]_vars

\* ----------------------------------------- hostnames in upper and lower case
\* hostnames as the domains API may spell them (fetch_domains returns the
\* strings of the answer as they are)
Hostnames == Domains \cup {"B.COM"}

\* all lists of hostnames of length <= n
HostListsUpTo(n) == UNION {[1..k -> Hostnames] : k \in 0..n}

\* an admin goes through /ignore_add or /ignore_remove and sends any text
AdminEditAnyText ==
    /\ pc \in AwaitPoints
    /\ \E user_state \in {ADD_DOMAIN_STATE, REMOVE_DOMAIN_STATE}, text \in Texts :
        ignored_domains' = DomainInput(user_state, text, ignored_domains).ignored
    /\ UNCHANGED << botVars, sendVars, checkerVars >>

\* one call of filter_domains on a fetched list in any spelling
FilterCallAnyCase ==
    /\ \E domains \in HostListsUpTo(MaxLen) :
        /\ fetched' = domains
        /\ domains_to_check' = FilterDomains(domains, ignored_domains)
        /\ ignored_at_filter' = ignored_domains
    /\ UNCHANGED << botVars, sendVars, probeVars, stop_at, historyVars >>
    /\ UNCHANGED << max_failures, trackerVars, stop_event, outageVars, now,
                    ignored_domains, pc, initial_results, newly_unreachable,
                    newly_reachable, failed_domains_for_retry, retry_items,
                    retry_idx, log_lines, notifier_calls, cycle, last_end,
                    fc_at_start, ur_at_start, retry_probes, fetch_log >>
    /\ UNCHANGED legacyVars

NextCase ==
    \/ AdminEditAnyText
    \/ FilterCallAnyCase

SpecCase == Init /\ [][NextCase]_vars

\* ------------------------------------------ the legacy Checker (src/main.py)
\* run.py constructs the Checker with sms=True
SMS == TRUE

\* line 17: self.ignore_domains
LegacyIgnoreDomains == {"example.com", "example.org"}

MissingFile == LegacyConfig("missing", <<>>, <<>>)

MalformedFile == LegacyConfig("malformed", <<>>, <<>>)

\* the value False that load_config returns at line 43
FalseConfig == LegacyConfig("false", <<>>, <<>>)

\* lines 35-38: default_config
DefaultConfig == LegacyConfig("ok", <<>>, <<>>)

\* lists of domains without repetition, as unavailable_domains holds them
DistinctLists ==
    {l \in ListsUpTo(MaxLen) : \A i, j \in 1..Len(l) : l[i] = l[j] => i = j}

\* what CONFIG_FILE may hold when the Checker is constructed
FileStates ==
    {MissingFile, MalformedFile}
        \cup {LegacyConfig("ok", p, u) : p \in {<<>>, <<"0912">>},
                                         u \in DistinctLists}

\* lines 45-50: save_config writes the file only while ERROR_STS is False
SaveConfig(file, cfg, error_sts) == IF ~error_sts THEN cfg ELSE file

\* lines 27-43: load_config: the value returned, ERROR_STS and the file after
\* the call, and how the call found the file
LoadConfig(file, error_sts) ==
    CASE file.state = "ok" ->
           [ret |-> file, error_sts |-> error_sts, file |-> file,
            found |-> "found"]
      [] file.state = "missing" ->
           [ret |-> DefaultConfig, error_sts |-> TRUE,
            file |-> SaveConfig(file, DefaultConfig, TRUE),
            found |-> "missing"]
      [] OTHER ->
           [ret |-> FalseConfig, error_sts |-> TRUE, file |-> file,
            found |-> "malformed"]

\* lines 52-62: load_domains: the answer of the API without the ignored
\* names, False (here <<>>) for an empty list, and for any exception False
\* with ERROR_STS set
LoadDomains(raised, body, error_sts) ==
    IF raised
    THEN [ret |-> <<>>, error_sts |-> TRUE]
    ELSE [ret |-> SelectSeq(body, LAMBDA d : d \notin LegacyIgnoreDomains),
          error_sts |-> error_sts]

\* lines 135-152: the loop of run over self.domains: unavailable_domains and
\* changes_made after it
RECURSIVE RunLoop(_, _, _, _, _)
RunLoop(unavailable, changes_made, ds, accessible, i) ==
    IF i > Len(ds)
    THEN [unavailable |-> unavailable, changes_made |-> changes_made]
    ELSE LET d == ds[i]
             listed == \E k \in 1..Len(unavailable) : unavailable[k] = d
             next == IF accessible[i]
                     THEN SelectSeq(unavailable, LAMBDA x : x # d)
                     ELSE IF listed THEN unavailable ELSE Append(unavailable, d)
         IN  RunLoop(next, changes_made \/ (accessible[i] = listed),
                     ds, accessible, i + 1)

\* lines 10-25: Checker(...): load_config, then load_domains
LegacyConstruct ==
    /\ config = NoConfig
    /\ \E file \in FileStates, raised \in BOOLEAN, body \in ListsUpTo(MaxLen) :
        LET c == LoadConfig(file, FALSE)
            d == LoadDomains(raised, body, c.error_sts)
        IN  /\ config' = c.ret
            /\ config_file' = c.file
            /\ last_load' = c.found
            /\ legacy_domains' = d.ret
            /\ ERROR_STS' = d.error_sts
    /\ UNCHANGED << sideVars, historyVars, stop_at, ignored_at_filter >>
    /\ UNCHANGED << max_failures, trackerVars, stop_event, outageVars, now,
                    ignored_domains, pc, localVars, log_lines, notifier_calls,
                    cycle, last_end, fetched, fc_at_start, ur_at_start,
                    retry_probes, fetch_log >>

\* lines 64-96: send_SMS begins with self.config = self.load_config(); every
\* exception is swallowed
LegacySendSMS ==
    /\ config # NoConfig
    /\ LET c == LoadConfig(config_file, ERROR_STS)
       IN  /\ config' = c.ret
           /\ config_file' = c.file
           /\ ERROR_STS' = c.error_sts
           /\ last_load' = c.found
    /\ UNCHANGED legacy_domains
    /\ UNCHANGED << sideVars, historyVars, stop_at, ignored_at_filter >>
    /\ UNCHANGED << max_failures, trackerVars, stop_event, outageVars, now,
                    ignored_domains, pc, localVars, log_lines, notifier_calls,
                    cycle, last_end, fetched, fc_at_start, ur_at_start,
                    retry_probes, fetch_log >>

\* lines 123-186: run: nothing while ERROR_STS is set; otherwise the loop over
\* the domains, save_config and load_config after a change, and send_SMS
LegacyRun ==
    /\ config # NoConfig
    /\ IF ERROR_STS \/ legacy_domains = <<>> \/ config.state # "ok"
       THEN UNCHANGED << config_file, ERROR_STS, config, last_load >>
       ELSE \E accessible \in [1..Len(legacy_domains) -> BOOLEAN] :
            LET r == RunLoop(config.unavailable_domains, FALSE,
                             legacy_domains, accessible, 1)
                changed == [config EXCEPT !.unavailable_domains = r.unavailable]
                saved == IF r.changes_made
                         THEN SaveConfig(config_file, changed, ERROR_STS)
                         ELSE config_file
                c1 == IF r.changes_made
                      THEN LoadConfig(saved, ERROR_STS)
                      ELSE [ret |-> changed, error_sts |-> ERROR_STS,
                            file |-> saved, found |-> last_load]
                c2 == IF SMS
                      THEN LoadConfig(c1.file, c1.error_sts)
                      ELSE c1
            IN  /\ config' = c2.ret
                /\ config_file' = c2.file
                /\ ERROR_STS' = c2.error_sts
                /\ last_load' = c2.found
    /\ UNCHANGED legacy_domains
    /\ UNCHANGED << sideVars, historyVars, stop_at, ignored_at_filter >>
    /\ UNCHANGED << max_failures, trackerVars, stop_event, outageVars, now,
                    ignored_domains, pc, localVars, log_lines, notifier_calls,
                    cycle, last_end, fetched, fc_at_start, ur_at_start,
                    retry_probes, fetch_log >>

NextLegacy ==
    \/ LegacyConstruct
    \/ LegacySendSMS
    \/ LegacyRun

SpecLegacy == Init /\ [][NextLegacy]_vars

\* ------------------------------------------------------------- properties
\* a call of check_domains_job has returned after running to its last line
CycleDone == pc = "idle" /\ last_end = "done"

\* every initial probe of d in this cycle returned UP / failed
InitialAllUp(d) ==
    \A i \in 1..Len(domains_to_check) :
        domains_to_check[i] = d => initial_results[i] = "up"

InitialAllFailed(d) ==
    \A i \in 1..Len(domains_to_check) :
        domains_to_check[i] = d => initial_results[i] \in {"down", "exc"}

RetriesOf(d) == {i \in 1..Len(retry_probes) : retry_probes[i].domain = d}

RetriesAllFailed(d) == \A i \in RetriesOf(d) : ~retry_probes[i].ok

\* the transition messages of this cycle that list d as newly unreachable
UnreachableNotices(d) ==
    {i \in 1..Len(notifier_calls) :
        /\ notifier_calls[i].kind = "transition"
        /\ d \in Range(notifier_calls[i].unreachable)}

UnreachableLines(d) ==
    {i \in 1..Len(log_lines) :
        log_lines[i].kind = "UNREACHABLE" /\ log_lines[i].domain = d}

\* C1: after every completed cycle, for every domain d, d is in
\* unreachable_domains iff failure_counts[d] exists and is >= max_failures.
C1_UnreachableIffCount ==
    (CycleDone /\ ~stop_event) =>
        \A d \in Domains :
            d \in unreachable_domains <=>
                (d \in DOMAIN failure_counts /\ failure_counts[d] >= max_failures)

\* C2: max_failures = 1, fetched list <<a.com>>, empty tracker, every probe
\* DOWN: the cycle ends with unreachable_domains = {a.com}, exactly one
\* notification listing a.com as newly unreachable and one UNREACHABLE line.
C2_SingleFailureScenario ==
    ( /\ CycleDone
      /\ ~stop_event
      /\ max_failures = 1
      /\ fc_at_start = <<>>
      /\ ur_at_start = {}
      /\ fetched = <<"a.com">>
      /\ domains_to_check = <<"a.com">>
      /\ initial_results = <<"down">>
      /\ RetriesAllFailed("a.com") )
    => /\ unreachable_domains = {"a.com"}
       /\ Cardinality(UnreachableNotices("a.com")) = 1
       /\ Cardinality(UnreachableLines("a.com")) = 1

\* C3: for max_failures >= 2 and no stop signal, a domain that is HEALTHY at
\* cycle start and fails every probe of the cycle ends the cycle with failure
\* count max_failures, in unreachable_domains, and exactly once in the
\* newly-unreachable list.
C3_FailingDomainEscalates ==
    \A d \in Domains :
        ( /\ CycleDone
          /\ ~stop_event
          /\ max_failures >= 2
          /\ d \in CurrentDomainsSet
          /\ d \notin DOMAIN fc_at_start
          /\ d \notin ur_at_start
          /\ InitialAllFailed(d)
          /\ RetriesAllFailed(d) )
        => /\ d \in DOMAIN failure_counts
           /\ failure_counts[d] = max_failures
           /\ d \in unreachable_domains
           /\ Count(newly_unreachable, d) = 1

\* what C4 promises of a domain d at the end of the cycle
RecoveredOnce(d) ==
    /\ d \notin unreachable_domains
    /\ d \notin DOMAIN failure_counts
    /\ RetriesOf(d) = {}
    /\ Count(newly_reachable, d) = 1

\* C4 (as stated): a domain in unreachable_domains at cycle start whose
\* initial probe returns UP is, at the end of that cycle, in neither
\* unreachable_domains nor failure_counts, is not retried, and is exactly once
\* in the newly-reachable list.
C4_RecoveryOriginal ==
    \A d \in Domains :
        ( /\ pc = "idle"
          /\ last_end \in {"stop_gather", "done"}
          /\ d \in ur_at_start
          /\ d \in CurrentDomainsSet
          /\ InitialAllUp(d) )
        => RecoveredOnce(d)

\* C4 (amended): the same, for a cycle in which the stop signal is not set
\* when the initial batch of probes ends (so that its results are applied).
C4_RecoveryAmended ==
    \A d \in Domains :
        ( /\ CycleDone
          /\ d \in ur_at_start
          /\ d \in CurrentDomainsSet
          /\ InitialAllUp(d) )
        => RecoveredOnce(d)

C4_Witness ==
    /\ CycleDone
    /\ \E d \in ur_at_start :
        /\ d \in CurrentDomainsSet
        /\ InitialAllUp(d)
        /\ Count(newly_reachable, d) = 1

\* C5 (as stated): after any call of check_domains_job returns, the call
\* with an empty fetched-and-filtered list included, no domain absent from
\* that cycle's fetched list is left in failure_counts or unreachable_domains.
C5_NoResidueOriginal ==
    (pc = "idle" /\ last_end \in {"empty", "stop_gather", "done"}) =>
        \A d \in DOMAIN failure_counts \cup unreachable_domains :
            d \in Range(fetched)

\* C5 (amended): after a call that runs to its staleness cleanup, no domain
\* absent from the cycle's fetched-and-filtered list is left in
\* failure_counts or unreachable_domains; a call that returns earlier (empty
\* list, stop signal after the initial batch) leaves both as they were.
C5_NoResidueAmended ==
    /\ CycleDone =>
        \A d \in DOMAIN failure_counts \cup unreachable_domains :
            d \in CurrentDomainsSet /\ d \in Range(fetched)
    /\ (pc = "idle" /\ last_end \in {"empty", "stop_gather"}) =>
        /\ failure_counts = fc_at_start
        /\ unreachable_domains = ur_at_start

C5_Witness ==
    /\ CycleDone
    /\ \E d \in DOMAIN fc_at_start :
        /\ d \in ur_at_start
        /\ d \notin Range(fetched)
        /\ d \notin DOMAIN failure_counts
        /\ d \notin unreachable_domains

\* C6 (as stated): every domain in unreachable_domains at the end of a cycle
\* was listed as newly unreachable in a notifier call of the cycle in which
\* it entered the set, also when the stop signal is set during that cycle.
C6_AnnouncedOriginal ==
    pc = "idle" => unreachable_domains \subseteq announced

\* C6 (amended): the same as long as the stop signal is not set; once it is
\* set, only the domains that entered in the stopped cycle are unannounced.
C6_AnnouncedAmended ==
    /\ (pc = "idle" /\ ~stop_event) => unreachable_domains \subseteq announced
    /\ CycleDone =>
        (unreachable_domains \ announced) \subseteq Range(newly_unreachable)

C6_Witness ==
    /\ CycleDone
    /\ ~stop_event
    /\ \E d \in unreachable_domains :
        /\ d \in Range(newly_unreachable)
        /\ \E i \in UnreachableNotices(d) : notifier_calls[i].raised

\* ----- fetch_domains (SpecFetch)
Failed(e) == e.outcome # "ok"

NoCallRaised(e) == \A i \in 1..Len(e.calls) : ~e.calls[i].raised

OutageNotified(e) == \E i \in 1..Len(e.calls) : e.calls[i].kind \in OutageKinds

RecoveryNotified(e) == \E i \in 1..Len(e.calls) : e.calls[i].kind = "recovery"

\* entries i..j of fetch_log belong to one outage: no successful fetch among them
OneOutage(i, j) == \A k \in i..j : Failed(fetch_log[k])

\* C7: for every kind of failure, an outage notification is emitted on the
\* first failure, none on a second failure 1 minute later, and one again on a
\* failure 16 minutes after the first.
C7_CooldownScenario ==
    ( /\ Len(fetch_log) >= 3
      /\ OneOutage(1, 3)
      /\ \A k \in 1..3 : NoCallRaised(fetch_log[k])
      /\ fetch_log[2].time = fetch_log[1].time + 60
      /\ fetch_log[3].time = fetch_log[1].time + 960 )
    => /\ OutageNotified(fetch_log[1])
       /\ ~OutageNotified(fetch_log[2])
       /\ OutageNotified(fetch_log[3])

\* C8: within one outage, an outage notification is emitted only if none was
\* emitted yet for it or more than 900 s have passed since the last one.
C8_ThrottledNotifications ==
    \A i \in 1..Len(fetch_log), j \in 1..Len(fetch_log) :
        ( /\ i < j
          /\ OneOutage(i, j)
          /\ \A k \in i..j : NoCallRaised(fetch_log[k])
          /\ OutageNotified(fetch_log[i])
          /\ OutageNotified(fetch_log[j]) )
        => fetch_log[j].time - fetch_log[i].time > Cooldown

\* C9: the recovery notification is emitted, and the outage state cleared,
\* exactly when an outage was active and the body is a list of strings; a
\* body of another shape returns [], emits no recovery notification and
\* leaves the outage active.
C9_RecoveryOnlyOnSuccess ==
    \A k \in 1..Len(fetch_log) :
        LET e == fetch_log[k]
        IN  NoCallRaised(e) =>
              /\ RecoveryNotified(e) <=> (e.active /\ e.outcome = "ok")
              /\ e.outcome = "badshape" =>
                    /\ e.ret = <<>>
                    /\ ~RecoveryNotified(e)
                    /\ e.active => e.notified

\* C10: fetch_domains never raises, whatever the HTTP outcome and the outcome
\* of its notifier calls: it returns [] on a failure and the list otherwise.
C10_NeverRaises ==
    \A k \in 1..Len(fetch_log) :
        LET e == fetch_log[k]
        IN  /\ ~e.raised
            /\ e.ret = IF Failed(e) THEN <<>> ELSE e.body

\* ------------------------------------------- properties of check_domain_status
ProbeDone == probe_pc = "done"

\* the requests of the finished call that went to url
RequestsTo(url) == {i \in 1..Len(probe_log) : probe_log[i].url = url}

RootOk(e) ==
    /\ e.url \in Range(UrlsToTryRoot)
    /\ e.answer.kind = "response"
    /\ e.answer.status < 400

HealthOk(e) ==
    /\ e.url \in Range(UrlsToTryHealth)
    /\ e.answer = Answer("response", 200, "ok")

\* a health answer that classifies DOWN: 401, a status >= 400, a 200 whose body
\* is malformed, not an object or whose status is not "ok", a transport error
HealthBad(e) ==
    /\ e.url \in Range(UrlsToTryHealth)
    /\ \/ e.answer.kind \in TransportErrors
       \/ e.answer.kind = "response" /\ e.answer.status >= 400
       \/ e.answer.kind = "response" /\ e.answer.status = 200
                                     /\ e.answer.body # "ok"

\* C11: when the https:// request of the root check ends with a timeout or a
\* connection/TLS error, the call goes on to request http://, and it returns
\* DOWN from the root check only after both URLs were requested
C11_HttpsErrorMovesOn ==
    (/\ ProbeDone
     /\ \E i \in RequestsTo(UrlsToTryRoot[1]) :
            probe_log[i].answer.kind \in {"TimeoutException", "RequestError"})
        => RequestsTo(UrlsToTryRoot[2]) # {}

TransitionCalls ==
    {i \in 1..Len(notifier_calls) : notifier_calls[i].kind = "transition"}

\* the stop signal was set while this cycle was suspended before its
\* notification step (in the fetch, the gather, a retry sleep or a retry probe)
StoppedBeforeNotify ==
    /\ stop_event
    /\ stop_at.cycle = cycle
    /\ stop_at.pc \in {"fetch", "gather", "sleep", "probe"}

\* C13: in a cycle in which the stop signal was set before the notification
\* step, the notifier is not called with a transition message, whatever
\* became newly unreachable or newly reachable before
C13_StopSuppressesNotification ==
    StoppedBeforeNotify => TransitionCalls = {} /\ pc # "notify"

\* a cycle ran to its end with a recovery or an escalation on its lists, the
\* stop signal came during a retry, and no transition message was sent
C13_Witness ==
    /\ CycleDone
    /\ StoppedBeforeNotify
    /\ newly_unreachable # <<>> \/ newly_reachable # <<>>
    /\ TransitionCalls = {}

NoDuplicates(list) == \A i, j \in 1..Len(list) : list[i] = list[j] => i = j

\* positions of a line in a text
LinesOf(text, line) == {i \in 1..Len(text) : text[i] = line}

\* the unreachable part of the text comes before its reachable part, and each
\* part holds its list
UnreachableFirst(c) ==
    LET u == Len(c.unreachable)
        r == Len(c.reachable)
    IN  /\ u > 0 => /\ c.text[1] = UnreachableHeader
                    /\ SubSeq(c.text, 2, u + 1) = c.unreachable
        /\ r > 0 => /\ LinesOf(c.text, ReachableHeader) = {Len(c.text) - r}
                    /\ SubSeq(c.text, Len(c.text) - r + 1, Len(c.text))
                           = c.reachable
        /\ (u > 0 /\ r > 0) =>
              \A i \in LinesOf(c.text, UnreachableHeader),
                 j \in LinesOf(c.text, ReachableHeader) : i < j

\* C14: per cycle at most one notifier call carries a transition message; the
\* call is made only when the retry loop has been through its whole snapshot
\* and no stale domain is left; its lists are not both empty; its text has the
\* newly-unreachable domains before the newly-reachable ones; and with a
\* fetched list free of duplicates no domain is in both lists
C14_OneCombinedMessage ==
    /\ Cardinality(TransitionCalls) <= 1
    /\ pc = "notify" =>
          /\ TransitionCalls = {}
          /\ retry_idx > Len(retry_items)
          /\ StaleDomains(failure_counts, CurrentDomainsSet) = {}
    /\ \A i \in TransitionCalls :
          LET c == notifier_calls[i]
          IN  /\ pc = "idle" /\ last_end = "done"
              /\ c.unreachable # <<>> \/ c.reachable # <<>>
              /\ c.unreachable = newly_unreachable
              /\ c.reachable = newly_reachable
              /\ UnreachableFirst(c)
              /\ NoDuplicates(fetched) =>
                    Range(c.unreachable) \cap Range(c.reachable) = {}

\* one message named a newly unreachable and a newly reachable domain
C14_Witness ==
    \E i \in TransitionCalls :
        /\ notifier_calls[i].unreachable # <<>>
        /\ notifier_calls[i].reachable # <<>>
        /\ NoDuplicates(fetched)

\* C15: when the notifier call with the transition message ends by raising,
\* the job runs to its last line and returns; failure_counts and
\* unreachable_domains are what they were before the call; and that call
\* stays the last notifier call of the cycle
C15_NotifierFailureKeepsState ==
    [][(pc = "notify" /\ pc' = "idle"
            /\ notifier_calls'[Len(notifier_calls')].raised)
        => /\ last_end' = "done"
           /\ failure_counts' = failure_counts
           /\ unreachable_domains' = unreachable_domains
           /\ Len(notifier_calls') = Len(notifier_calls) + 1
           /\ Cardinality(TransitionCalls') = 1]_vars

\* the notifier raised on the transition message of a cycle that had just
\* marked a domain unreachable
C15_Witness ==
    /\ CycleDone
    /\ \E i \in TransitionCalls : notifier_calls[i].raised
    /\ unreachable_domains # {}
    /\ unreachable_domains # ur_at_start

\* C16: a cycle whose filtered list is empty (the fetch failed, the list was
\* empty or all of it is ignored) ends at line 223: no probe was issued, no
\* transition message sent, failure_counts and unreachable_domains untouched
C16_EmptyListSkipsCycle ==
    (/\ pc = "idle"
     /\ last_end \notin {"none", "stop_before", "raised"}
     /\ domains_to_check = <<>>)
        => /\ last_end = "empty"
           /\ initial_results = <<>>
           /\ retry_probes = <<>>
           /\ TransitionCalls = {}
           /\ failure_counts = fc_at_start
           /\ unreachable_domains = ur_at_start

\* every fetched domain was on the ignore list, while an earlier cycle had
\* left a failure count behind
C16_Witness ==
    /\ pc = "idle"
    /\ last_end = "empty"
    /\ fetched # <<>>
    /\ failure_counts # <<>>

\* --------------------------------------------- properties of the stale cleanup
\* d was tracked when the cycle began and is not on its non-empty filtered list
StaleAtStart(d) ==
    /\ d \in DOMAIN fc_at_start \cup ur_at_start
    /\ domains_to_check # <<>>
    /\ d \notin CurrentDomainsSet

\* d is in no notification and in no audit-log line of this cycle
Unmentioned(d) ==
    /\ d \notin Range(newly_unreachable) \cup Range(newly_reachable)
    /\ \A i \in TransitionCalls :
          d \notin Range(notifier_calls[i].unreachable)
                       \cup Range(notifier_calls[i].reachable)
    /\ \A i \in 1..Len(log_lines) : log_lines[i].domain # d

\* C18, as stated: once the call has returned with a non-empty filtered list,
\* a domain tracked at its start and absent from that list is in neither
\* failure_counts nor unreachable_domains, and the cycle never mentioned it
C18_StaleRemovedOriginal ==
    (pc = "idle" /\ last_end \in {"done", "stop_gather"}) =>
        \A d \in Domains :
            StaleAtStart(d) =>
                /\ d \notin DOMAIN failure_counts
                /\ d \notin unreachable_domains
                /\ Unmentioned(d)

\* C18, amended: the same for a call that got past the stop check after the
\* initial batch (lines 230-232), and no mention in any case
C18_StaleRemovedAmended ==
    /\ CycleDone =>
          \A d \in Domains :
              StaleAtStart(d) =>
                  /\ d \notin DOMAIN failure_counts
                  /\ d \notin unreachable_domains
    /\ \A d \in Domains : StaleAtStart(d) => Unmentioned(d)

\* an unreachable domain left the list and the cycle dropped it silently
\* while announcing another domain
C18_Witness ==
    /\ CycleDone
    /\ \E d \in ur_at_start : StaleAtStart(d)
    /\ TransitionCalls # {}

\* ---------------------------------------------------- properties of the bot
\* C19: a finished call of send_notification_to_admins has returned (not
\* raised) and has attempted delivery to every chat that was registered when
\* it began, whatever contact_handler registered in the meantime
C19_DeliversToAll ==
    send_pc = "done" =>
        /\ send_outcome = "returned"
        /\ send_targets \subseteq send_visited

\* a call that met a failed delivery and a registration still went through
\* every chat registered at its start
C19_Witness ==
    /\ send_pc = "done"
    /\ send_outcome = "returned"
    /\ send_failed # {}
    /\ Cardinality(send_targets) = 2

\* a step in which handle_domain_input ends the pending /ignore_add or
\* /ignore_remove of an admin chat
AdminInputStep ==
    \E chat_id \in admin_chat_ids :
        /\ chat_id \in DOMAIN user_states
        /\ user_states' = DictDel(user_states, chat_id)
        /\ admin_chat_ids' = admin_chat_ids

\* C20: a pending /ignore_add or /ignore_remove belongs to a chat of
\* admin_chat_ids only; every step that changes the ignore set is a
\* handle_domain_input of such a chat, so no other handler, no chat outside
\* admin_chat_ids and no filter_domains call changes it
C20_OnlyAdminsEdit ==
    /\ [](DOMAIN user_states \subseteq admin_chat_ids)
    /\ [][ignored_domains' # ignored_domains => AdminInputStep]_vars

\* an admin added a.com while another chat is not registered
C20_Witness ==
    /\ "a.com" \in ignored_domains
    /\ admin_chat_ids = {1}
    /\ user_states = <<>>

\* ------------------------------------------------ properties of the filter step
\* the filter step of this cycle has run
Filtered ==
    /\ cycle > 0
    /\ pc # "fetch"
    /\ last_end \notin {"stop_before", "raised"}

\* the domains handed to check_domain_status in this cycle so far
Probed ==
    {domains_to_check[i] : i \in 1..Len(initial_results)}
        \cup {retry_probes[i].domain : i \in 1..Len(retry_probes)}

\* C17: from the filter step on, the domains the cycle probes (initial pass,
\* retries) are those of the fetched list that were not in the ignore set when
\* filter_domains read it, whatever the bot does to the set afterwards; a
\* domain ignored at that step is in none of the cycle's lists or messages
C17_ProbedIsFetchedMinusIgnored ==
    Filtered =>
        /\ Probed = Range(fetched) \ ignored_at_filter
        /\ CurrentDomainsSet = Range(fetched) \ ignored_at_filter
        /\ (Range(newly_unreachable) \cup Range(newly_reachable))
               \cap ignored_at_filter = {}
        /\ \A i \in TransitionCalls :
               (Range(notifier_calls[i].unreachable)
                    \cup Range(notifier_calls[i].reachable))
                   \cap ignored_at_filter = {}

\* a.com was put on the ignore list after the filter step of a cycle that
\* then retried it and announced it as newly unreachable
C17_Witness ==
    /\ CycleDone
    /\ "a.com" \in ignored_domains \ ignored_at_filter
    /\ \E i \in 1..Len(retry_probes) : retry_probes[i].domain = "a.com"
    /\ \E i \in TransitionCalls :
           "a.com" \in Range(notifier_calls[i].unreachable)

\* ------------------------------------------------ properties of filter_domains
\* positions of the input whose domain is not ignored
KeptPositions(domains, ignored_set) ==
    {i \in 1..Len(domains) : domains[i] \notin ignored_set}

\* the k-th smallest member of a set of positions
NthPosition(positions, k) ==
    CHOOSE i \in positions : Cardinality({j \in positions : j <= i}) = k

\* C21: the list filter_domains returned holds, in input order and with
\* multiplicity, the input elements outside the ignore set it read, and
\* filtering that list again with the same ignore set returns it unchanged
C21_FilterKeepsOrderIdempotent ==
    LET kept == KeptPositions(fetched, ignored_at_filter)
    IN  /\ Len(domains_to_check) = Cardinality(kept)
        /\ \A k \in 1..Len(domains_to_check) :
               domains_to_check[k] = fetched[NthPosition(kept, k)]
        /\ \A d \in Domains :
               Count(domains_to_check, d)
                   = IF d \in ignored_at_filter THEN 0 ELSE Count(fetched, d)
        /\ FilterDomains(domains_to_check, ignored_at_filter) = domains_to_check

\* a call dropped an ignored domain and kept another
C21_Witness ==
    /\ ignored_at_filter # {}
    /\ Len(fetched) > Len(domains_to_check)
    /\ Len(domains_to_check) >= 1

\* d stands once in the probed list, that probe failed, and its one retry
\* returned UP
SingleFailureThenSuccess(d) ==
    /\ Count(domains_to_check, d) = 1
    /\ \E i \in 1..Len(domains_to_check) :
           /\ domains_to_check[i] = d
           /\ initial_results[i] \in {"down", "exc"}
    /\ Cardinality(RetriesOf(d)) = 1
    /\ \A i \in RetriesOf(d) : retry_probes[i].ok

\* no list of this cycle's transition message, and no call made, names d
NotNamed(d) ==
    /\ d \notin Range(newly_unreachable) \cup Range(newly_reachable)
    /\ \A i \in TransitionCalls :
           d \notin Range(notifier_calls[i].unreachable)
                        \cup Range(notifier_calls[i].reachable)

\* a domain added to unreachable_domains in this cycle has failed its latest
\* max_failures probes in a row
AddedAfterFullStreak ==
    \A d \in Range(newly_unreachable) :
        /\ d \in unreachable_domains
        /\ probe_streak[d] >= max_failures

\* d is out of the set, has no failure count and is not named
ClearedQuietly(d) ==
    /\ d \notin unreachable_domains
    /\ d \notin DOMAIN failure_counts
    /\ NotNamed(d)

C23_UnreachableHasFullCount ==
    \A d \in unreachable_domains :
        /\ d \in DOMAIN failure_counts
        /\ failure_counts[d] >= max_failures

\* the middle of a cycle whose initial pass found an unreachable domain still
\* down and another domain newly failing
C23_Witness ==
    /\ pc \in {"sleep", "probe"}
    /\ \E d \in unreachable_domains \cap ur_at_start :
           failure_counts[d] > fc_at_start[d]

\* d is FAILING: it has a failure count below max_failures
Failing(d) ==
    /\ d \in DOMAIN failure_counts
    /\ failure_counts[d] < max_failures

\* C24: at the end of a cycle that probed a non-empty list and was not
\* interrupted by the stop signal, no domain of the fetched list is FAILING:
\* each has no failure count or a count of at least max_failures.
C24_NoFailingAtCycleEnd ==
    (CycleDone /\ domains_to_check # <<>> /\ ~StoppedBeforeNotify)
        => \A d \in Range(fetched) : ~Failing(d)

\* the end of an uninterrupted cycle in which one domain failed until the
\* ceiling and another one failed first and then answered a retry
C24_Witness ==
    /\ CycleDone
    /\ ~stop_event
    /\ \E d \in Range(fetched) :
           /\ d \in DOMAIN failure_counts
           /\ \E i \in RetriesOf(d) : ~retry_probes[i].ok
    /\ \E d \in Range(fetched) :
           /\ d \notin DOMAIN failure_counts
           /\ ~InitialAllUp(d)

\* the initial pass of this cycle has been applied to the tracker
InitialPassApplied ==
    /\ cycle > 0
    /\ domains_to_check # <<>>
    /\ pc \notin {"fetch", "gather"}
    /\ last_end \in {"running", "done"}

\* failure_counts as the initial pass of this cycle left it
CountsAfterInitialPass ==
    ApplyInitialResults(Tracker(fc_at_start, ur_at_start, <<>>, <<>>, <<>>,
                                <<>>, {}),
                        domains_to_check, initial_results, 1, max_failures,
                        TRUE).fc

\* a domain at or over the ceiling after the initial pass is not retried
NoRetryAtCeiling ==
    InitialPassApplied =>
        \A d \in DOMAIN CountsAfterInitialPass :
            CountsAfterInitialPass[d] >= max_failures => RetriesOf(d) = {}

\* the retry probes of one cycle are bounded for each domain
RetriesBoundedBy(n) ==
    \A d \in Domains : Cardinality(RetriesOf(d)) <= n

\* C25: every cycle ends, because a domain is retried at most
\* max_failures - 1 times in one cycle, and a domain whose count is at
\* max_failures or more after the initial pass is not retried at all.
C25_RetriesBounded ==
    /\ RetriesBoundedBy(max_failures - 1)
    /\ NoRetryAtCeiling

\* check_domain_status is running (between its call and its return)
ProbeRunning == probe_pc \in {"root", "root_wait", "health", "health_wait"}

\* this step of a running call issues no request
IssuesNoRequest == Len(probe_log') = Len(probe_log)

\* if this step ends the call, the call returns DOWN
ReturnsDownIfAtAll == probe_pc' = "done" => probe_result' = "down"

\* C26: once the stop signal is set, a running check_domain_status issues
\* no further request (root or health) and returns DOWN.
C26_StopEndsProbe ==
    [][(stop_event /\ ProbeRunning) => (IssuesNoRequest /\ ReturnsDownIfAtAll)]_vars

\* this step raises no failure count and adds nothing to unreachable_domains
\* or to the lists of the message
NothingApplied ==
    /\ unreachable_domains' \subseteq unreachable_domains
    /\ DOMAIN failure_counts' \subseteq DOMAIN failure_counts
    /\ \A d \in DOMAIN failure_counts' : failure_counts'[d] = failure_counts[d]
    /\ Len(newly_unreachable') <= Len(newly_unreachable)
    /\ Len(newly_reachable') <= Len(newly_reachable)

\* if this step changes the tracker, it is the staleness cleanup, and what it
\* removes is not in the probed list
OnlyStaleRemoved ==
    (failure_counts' # failure_counts \/ unreachable_domains' # unreachable_domains)
        => /\ pc = "cleanup"
           /\ \A d \in (DOMAIN failure_counts \ DOMAIN failure_counts')
                       \cup (unreachable_domains \ unreachable_domains') :
                  d \notin CurrentDomainsSet

\* C27: once the stop signal is set, no step of the cycle increments a failure
\* count or adds a domain to unreachable_domains; no probe result that arrives
\* after the signal is applied; only the staleness removal still changes the
\* tracker.
C27_NothingAppliedAfterStop ==
    [][stop_event => (NothingApplied /\ OnlyStaleRemoved)]_vars

\* a cycle ended after the stop signal came during a retry probe: the DOWN of
\* that probe was dropped, the domain is still below the ceiling, and a stale
\* domain was removed
C27_Witness ==
    /\ CycleDone
    /\ StopWhile("probe")
    /\ \E d \in Domains :
           /\ Failing(d)
           /\ retry_probes[Len(retry_probes)] = [domain |-> d, ok |-> FALSE]
    /\ DOMAIN fc_at_start \ DOMAIN failure_counts # {}

\* the initial pass has just been applied: the head of the retry pass
AfterInitialPass ==
    /\ pc = "retry_for"
    /\ retry_idx = 1
    /\ retry_probes = <<>>

\* the position of the last UP among the initial probes of d (0: none)
LastUp(d) ==
    LET ups == {i \in 1..Len(domains_to_check) :
                   domains_to_check[i] = d /\ initial_results[i] = "up"}
    IN  IF ups = {} THEN 0 ELSE CHOOSE i \in ups : \A j \in ups : j <= i

\* the count d must have after the initial pass when every probe that did not
\* return UP (DOWN or an exception) counts as one failure of its own domain
ExpectedCount(d) ==
    LET later == {i \in 1..Len(domains_to_check) :
                     domains_to_check[i] = d /\ i > LastUp(d)}
    IN  (IF LastUp(d) = 0 THEN DictGet(fc_at_start, d, 0) ELSE 0)
            + Cardinality(later)

\* C28: when a probe of the initial pass raises an exception, the cycle goes
\* on to the retry pass, the exception counts as one failure of its own
\* domain, and every other domain has its own result applied: an UP clears
\* the domain, a DOWN adds one to its count.
C28_ExceptionIsDownForItsDomain ==
    /\ (\E i \in 1..Len(initial_results) : initial_results[i] = "exc")
           => last_end # "raised"
    /\ (AfterInitialPass /\ \E i \in 1..Len(initial_results) :
                                initial_results[i] = "exc")
           => \A d \in CurrentDomainsSet :
                  /\ DictGet(failure_counts, d, 0) = ExpectedCount(d)
                  /\ (ExpectedCount(d) = 0) = (d \notin DOMAIN failure_counts)
                  /\ LastUp(d) # 0 => d \notin unreachable_domains

\* the initial pass of a cycle in which the probe of the first domain raised
\* and the second domain, unreachable until then, answered
C28_Witness ==
    /\ AfterInitialPass
    /\ initial_results = << "exc", "up" >>
    /\ domains_to_check[1] # domains_to_check[2]
    /\ domains_to_check[2] \in ur_at_start \ unreachable_domains
    /\ domains_to_check[1] \in DOMAIN failure_counts

\* the retry pass is under way
InRetryPass == pc \in {"retry_for", "retry_while", "sleep", "probe"}

\* the calls of check_domain_status that have begun and not returned
ProbesInFlight ==
    Cardinality({i \in 1..Len(initial_results) : initial_results[i] = "pending"})
        + (IF pc = "probe" THEN 1 ELSE 0)

\* the retry probes of this cycle that have begun
RetryProbesBegun == Len(retry_probes) + (IF pc = "probe" THEN 1 ELSE 0)

\* the retry probes of one domain stand next to each other
RetriesGrouped ==
    \A i, j, k \in 1..Len(retry_probes) :
        (i < j /\ j < k /\ retry_probes[i].domain = retry_probes[k].domain)
            => retry_probes[j].domain = retry_probes[i].domain

\* the domain whose retry is being slept for or probed is the domain of the
\* latest retry probe, or one that has not been retried yet
CurrentIsLatestOrNew ==
    pc \in {"sleep", "probe"} =>
        LET d == retry_items[retry_idx].domain
        IN  \/ RetriesOf(d) = {}
            \/ retry_probes[Len(retry_probes)].domain = d

\* C29: during the retry pass at most one probe is in flight, every retry
\* probe that has begun was preceded by one retry_interval sleep of its own,
\* and all retries of one domain are over before the first retry of the next
\* domain.
C29_RetriesSequential ==
    /\ InRetryPass => ProbesInFlight <= 1
    /\ sleeps = RetryProbesBegun
    /\ RetriesGrouped
    /\ CurrentIsLatestOrNew

\* the third retry probe of a cycle is in flight: the first domain was
\* retried twice, and the sleep for the second domain has run out
C29_Witness ==
    /\ pc = "probe"
    /\ Len(retry_probes) = 2
    /\ retry_probes[1].domain = retry_probes[2].domain
    /\ retry_items[retry_idx].domain # retry_probes[1].domain
    /\ sleeps = 3

\* the audit log of this cycle has no line of this kind for d
NoLogLine(kind, d) ==
    \A i \in 1..Len(log_lines) : log_lines[i] # [kind |-> kind, domain |-> d]

\* the cycle is over and had its notification step
NotificationDue == CycleDone /\ ~StoppedBeforeNotify

\* a retry of d failed and took its count to the ceiling
ReachedCeilingInRetry(d) ==
    /\ \E i \in RetriesOf(d) : ~retry_probes[i].ok
    /\ d \in DOMAIN failure_counts
    /\ failure_counts[d] >= max_failures

\* d was in unreachable_domains and a probe of the applied initial pass found
\* it UP
AnsweredInInitialPass(d) ==
    /\ InitialPassApplied
    /\ d \in ur_at_start
    /\ LastUp(d) # 0

\* C30: when the write of the audit log fails for a domain that becomes newly
\* unreachable or newly reachable, the transition is applied all the same
\* and the cycle's notification names the domain.
C30_LogFailureKeepsTransition ==
    \A d \in Domains :
        /\ (ReachedCeilingInRetry(d) /\ NoLogLine("UNREACHABLE", d))
               => /\ d \in unreachable_domains
                  /\ d \in Range(newly_unreachable)
                  /\ NotificationDue =>
                         \E i \in TransitionCalls :
                             d \in Range(notifier_calls[i].unreachable)
        /\ (AnsweredInInitialPass(d) /\ NoLogLine("REACHABLE", d))
               => /\ d \in Range(newly_reachable)
                  /\ d \notin unreachable_domains \/ d \in Range(newly_unreachable)
                  /\ NotificationDue =>
                         \E i \in TransitionCalls :
                             d \in Range(notifier_calls[i].reachable)

\* a finished cycle in which one domain became unreachable and another one
\* reachable, both were announced, and no line reached the audit log
C30_Witness ==
    /\ NotificationDue
    /\ log_lines = <<>>
    /\ \E d \in Domains : ReachedCeilingInRetry(d) /\ d \notin ur_at_start
    /\ \E d \in Domains : AnsweredInInitialPass(d) /\ d \notin unreachable_domains

\* d was in unreachable_domains when the cycle began, is in the probed list,
\* and every probe of it in this cycle failed
KeepsFailing(d) ==
    /\ InitialPassApplied
    /\ d \in ur_at_start
    /\ d \in CurrentDomainsSet
    /\ InitialAllFailed(d)
    /\ RetriesAllFailed(d)

\* the probes of d in this cycle: initial pass and retries
ProbesOf(d) == Count(domains_to_check, d) + Cardinality(RetriesOf(d))

\* this step names d as newly unreachable / newly reachable
EntersNewlyUnreachable(d) == Count(newly_unreachable', d) > Count(newly_unreachable, d)

EntersNewlyReachable(d) == Count(newly_reachable', d) > Count(newly_reachable, d)

\* this step is the staleness cleanup and d is not in the probed list
StaleRemovalOf(d) == pc = "cleanup" /\ d \notin CurrentDomainsSet

\* a newly-unreachable entry is made only for a domain outside the set and
\* puts it into the set; a domain leaves the set only with a newly-reachable
\* entry or by the staleness cleanup
EntriesAlternate ==
    \A d \in Domains :
        /\ EntersNewlyUnreachable(d) =>
               d \notin unreachable_domains /\ d \in unreachable_domains'
        /\ (d \in unreachable_domains /\ d \notin unreachable_domains') =>
               EntersNewlyReachable(d) \/ StaleRemovalOf(d)

\* an unreachable domain that keeps failing is probed once in the cycle, not
\* retried, stays in the set and is not named as newly unreachable
ProbedOnceAndKept ==
    \A d \in Domains :
        KeepsFailing(d) =>
            /\ ProbesOf(d) = 1
            /\ RetriesOf(d) = {}
            /\ d \in unreachable_domains
            /\ d \notin Range(newly_unreachable)

\* C31: over any sequence of cycles, a domain of unreachable_domains that
\* keeps failing is probed exactly once per cycle (no retries), stays in the
\* set and is not named again as newly unreachable: between two
\* newly-unreachable entries of a domain lies a newly-reachable entry of it
\* or its removal by the staleness cleanup.
C31_NoReannouncement ==
    /\ []ProbedOnceAndKept
    /\ [][EntriesAlternate]_vars

\* str.lower() of a hostname
Lower(h) == IF h = "B.COM" THEN "b.com" ELSE h

\* C32: domain identity is case-insensitive: a fetched hostname whose
\* lowercase form is in the ignore set (the bot stores its entries in
\* lowercase) is excluded from probing by filter_domains.
C32_IgnoredInAnyCase ==
    \A i \in 1..Len(fetched) :
        Lower(fetched[i]) \in ignored_at_filter
            => fetched[i] \notin Range(domains_to_check)

\* C33: when load_config finds no config file, it writes the default config
\* (empty phone_numbers and unavailable_domains) to the file and returns it,
\* so that a later load_config finds the file.
C33_DefaultConfigWritten ==
    last_load = "missing" =>
        /\ config = DefaultConfig
        /\ config_file = DefaultConfig
====
